---- MODULE Spec2Model ----
(***************************************************************************)
(* A model of api/vision.py: the handler class of the Nexus Vision API.    *)
(* do_POST reads GEMINI_API_KEY, the Content-Length header and the request *)
(* body, takes the image from a JSON envelope or from the raw body, calls  *)
(* the Gemini model once and answers with one JSON document.               *)
(*                                                                         *)
(* Bytes and characters are numbers (byte values, code points); Python     *)
(* bytes and str objects are sequences of them.  The library calls the     *)
(* handler makes (int, json.loads, base64.b64encode, base64.b64decode,     *)
(* str.strip, the in operator) are operators that compute what the call    *)
(* computes; what the environment decides (the deployment, the client, the *)
(* socket, the inference service) is chosen with \E.                       *)
(***************************************************************************)
EXTENDS Integers, Sequences, FiniteSets, TLC

\* ------------------------------------------------------------------ bounds

\* Raw request bodies are all byte strings over RawAlphabet up to this length
\* (beside the catalogue of JSON envelopes below).
MaxRawLen == 3

\* How many bytes past the body it sends a client may declare in Content-Length.
MaxOverDeclare == 1

\* ------------------------------------------------------- sequences of bytes

RECURSIVE SeqsUpTo(_, _)
SeqsUpTo(S, n) ==
    IF n = 0 THEN {<<>>}
    ELSE LET shorter == SeqsUpTo(S, n - 1)
         IN  shorter \cup {Append(s, x) : s \in {t \in shorter : Len(t) = n - 1}, x \in S}

Take(s, n) == SubSeq(s, 1, IF n < Len(s) THEN n ELSE Len(s))

Drop(s, n) == SubSeq(s, n + 1, Len(s))

\* ------------------------------------------------------------ int(header)

IsDigit(c) == c \in 48..57

\* str.isspace for the characters below 256
IsSpace(c) == c \in {9, 10, 11, 12, 13, 28, 29, 30, 31, 32, 133, 160}

RECURSIVE LStrip(_)
LStrip(s) == IF s # <<>> /\ IsSpace(Head(s)) THEN LStrip(Tail(s)) ELSE s

RECURSIVE RStrip(_)
RStrip(s) ==
    IF s # <<>> /\ IsSpace(s[Len(s)]) THEN RStrip(SubSeq(s, 1, Len(s) - 1)) ELSE s

\* A strip that forgets the trailing whitespace
StripLeadingOnly(s) == LStrip(s)

\* str.strip(): leading and trailing whitespace removed
Strip(s) == RStrip(LStrip(s))

RECURSIVE DigitsValue(_, _)
DigitsValue(s, acc) ==
    IF s = <<>> THEN acc ELSE DigitsValue(Tail(s), acc * 10 + (Head(s) - 48))

\* int(s) for a str: the decimal literal the string spells (optional sign,
\* surrounding whitespace), else ValueError.
PyInt(s) ==
    LET core   == Strip(s)
        signed == core # <<>> /\ Head(core) \in {43, 45}
        digits == IF signed THEN Tail(core) ELSE core
    IN  IF digits # <<>> /\ \A i \in 1..Len(digits) : IsDigit(digits[i])
        THEN [ok |-> TRUE,
              value |-> IF signed /\ Head(core) = 45
                        THEN 0 - DigitsValue(digits, 0)
                        ELSE DigitsValue(digits, 0)]
        ELSE [ok |-> FALSE, value |-> 0]

\* The request's headers, as far as the handler reads them: whether a
\* Content-Length header is present, and its value.
NoHeader == [present |-> FALSE, value |-> <<>>]

Header(value) == [present |-> TRUE, value |-> value]

\* int(self.headers.get('Content-Length')): no default for an absent header
ContentLengthNoDefault(headers) ==
    IF headers.present THEN PyInt(headers.value) ELSE [ok |-> FALSE, value |-> 0]

\* int(self.headers.get('Content-Length', 0)): the default 0 when the header
\* is absent
ContentLength(headers) ==
    IF headers.present THEN PyInt(headers.value) ELSE [ok |-> TRUE, value |-> 0]

\* ------------------------------------------------------------------ base64

\* The character of the base64 alphabet that stands for the 6-bit value v
B64Char(v) ==
    IF v < 26 THEN 65 + v
    ELSE IF v < 52 THEN 97 + (v - 26)
    ELSE IF v < 62 THEN 48 + (v - 52)
    ELSE IF v = 62 THEN 43 ELSE 47

\* The 6-bit value of a character, 64 for one outside the alphabet
B64Val(c) ==
    IF c \in 65..90 THEN c - 65
    ELSE IF c \in 97..122 THEN c - 97 + 26
    ELSE IF c \in 48..57 THEN c - 48 + 52
    ELSE IF c = 43 THEN 62
    ELSE IF c = 47 THEN 63 ELSE 64

\* base64.b64encode(body).decode('utf-8'): three bytes make four characters,
\* a last group of one or two bytes is padded with '='.
RECURSIVE b64encode(_)
b64encode(b) ==
    IF b = <<>> THEN <<>>
    ELSE IF Len(b) = 1 THEN
        <<B64Char(b[1] \div 4), B64Char((b[1] % 4) * 16), 61, 61>>
    ELSE IF Len(b) = 2 THEN
        <<B64Char(b[1] \div 4), B64Char((b[1] % 4) * 16 + b[2] \div 16),
          B64Char((b[2] % 16) * 4), 61>>
    ELSE
        <<B64Char(b[1] \div 4), B64Char((b[1] % 4) * 16 + b[2] \div 16),
          B64Char((b[2] % 16) * 4 + b[3] \div 64), B64Char(b[3] % 64)>>
        \o b64encode(Drop(b, 3))

\* binascii.a2b_base64 without validation, one character at a time: characters
\* outside the alphabet are dropped, a pad that completes a quad ends the
\* decoding, and data that stops inside a quad is an error.
RECURSIVE A2bBase64(_, _, _, _, _)
A2bBase64(s, quad_pos, leftchar, pads, out) ==
    IF s = <<>> THEN
        IF quad_pos # 0
        THEN [ok |-> FALSE, bytes |-> <<>>,
              msg |-> IF quad_pos = 1 THEN "Invalid base64-encoded string"
                      ELSE "Incorrect padding"]
        ELSE [ok |-> TRUE, bytes |-> out, msg |-> ""]
    ELSE LET c == Head(s)
             v == B64Val(c)
         IN  IF c = 61 THEN
                 IF quad_pos >= 2 /\ quad_pos + pads + 1 >= 4
                 THEN [ok |-> TRUE, bytes |-> out, msg |-> ""]
                 ELSE A2bBase64(Tail(s), quad_pos, leftchar,
                                IF quad_pos >= 2 THEN pads + 1 ELSE pads, out)
             ELSE IF v >= 64 THEN A2bBase64(Tail(s), quad_pos, leftchar, pads, out)
             ELSE IF quad_pos = 0 THEN A2bBase64(Tail(s), 1, v, 0, out)
             ELSE IF quad_pos = 1 THEN
                 A2bBase64(Tail(s), 2, v % 16, 0, Append(out, leftchar * 4 + v \div 16))
             ELSE IF quad_pos = 2 THEN
                 A2bBase64(Tail(s), 3, v % 4, 0, Append(out, leftchar * 16 + v \div 4))
             ELSE A2bBase64(Tail(s), 0, 0, 0, Append(out, leftchar * 64 + v))

\* base64.b64decode(image_base64) for the value data.get("image") gave or the
\* fallback made: a str must be ASCII (ValueError), anything that is neither
\* str nor bytes is a TypeError.
b64decode(x) ==
    IF x.t # "str"
    THEN [ok |-> FALSE, bytes |-> <<>>,
          msg |-> "argument should be a bytes-like object or ASCII string"]
    ELSE IF \E i \in 1..Len(x.s) : x.s[i] > 127
    THEN [ok |-> FALSE, bytes |-> <<>>,
          msg |-> "string argument should contain only ASCII characters"]
    ELSE A2bBase64(x.s, 0, 0, 0, <<>>)

\* ------------------------------------------------------------- json.loads

\* bytes.decode('utf-8'): the code points, or UnicodeDecodeError.  (json.loads
\* picks another codec only for a body that starts with a byte-order mark or
\* holds NUL bytes; the bodies of this model have neither.)
RECURSIVE Utf8Decode(_, _)
Utf8Decode(b, out) ==
    IF b = <<>> THEN [ok |-> TRUE, s |-> out]
    ELSE LET c    == Head(b)
             n    == IF c < 128 THEN 0
                     ELSE IF c \in 194..223 THEN 1
                     ELSE IF c \in 224..239 THEN 2
                     ELSE IF c \in 240..244 THEN 3 ELSE 4
             lead == IF n = 0 THEN c
                     ELSE IF n = 1 THEN c - 192
                     ELSE IF n = 2 THEN c - 224 ELSE c - 240
             cont(k) == b[1 + k] - 128
         IN  IF n = 4 \/ Len(b) < 1 + n
                \/ \E k \in 1..n : b[1 + k] \notin 128..191
             THEN [ok |-> FALSE, s |-> <<>>]
             ELSE Utf8Decode(
                     Drop(b, 1 + n),
                     Append(out,
                            IF n = 0 THEN lead
                            ELSE IF n = 1 THEN lead * 64 + cont(1)
                            ELSE IF n = 2 THEN lead * 4096 + cont(1) * 64 + cont(2)
                            ELSE lead * 262144 + cont(1) * 4096 + cont(2) * 64 + cont(3)))

\* What the handler looks at in a parsed JSON value: its Python type, its truth
\* value, and its characters when it is a str.
Leaf(t, truthy, s) == [t |-> t, truthy |-> truthy, s |-> s]

NoLeaf == Leaf("NoneType", FALSE, <<>>)

\* A parse step's outcome: the value read, where the text goes on and, for a
\* JSON object, the value of its "image" member (the last one wins, as in a dict).
Parsed(next, v, hasImage, image) ==
    [ok |-> TRUE, next |-> next, v |-> v, hasImage |-> hasImage, image |-> image]

ParseFail == [ok |-> FALSE, next |-> 0, v |-> NoLeaf, hasImage |-> FALSE, image |-> NoLeaf]

At(s, i) == IF i \in 1..Len(s) THEN s[i] ELSE -1

RECURSIVE SkipWs(_, _)
SkipWs(s, i) == IF At(s, i) \in {32, 9, 10, 13} THEN SkipWs(s, i + 1) ELSE i

\* The key "image"
ImageKey == <<105, 109, 97, 103, 101>>

\* The index of the quote that closes the string opened before i, 0 when a
\* control character or the end of the text comes first.  (Bodies of this
\* model hold no backslash escapes.)
RECURSIVE StringEnd(_, _)
StringEnd(s, i) ==
    IF i > Len(s) \/ s[i] < 32 THEN 0
    ELSE IF s[i] = 34 THEN i
    ELSE StringEnd(s, i + 1)

ParseString(s, i) ==
    LET e == StringEnd(s, i + 1)
    IN  IF e = 0 THEN ParseFail
        ELSE Parsed(e + 1, Leaf("str", e > i + 1, SubSeq(s, i + 1, e - 1)), FALSE, NoLeaf)

RECURSIVE DigitsEnd(_, _)
DigitsEnd(s, i) == IF IsDigit(At(s, i)) THEN DigitsEnd(s, i + 1) ELSE i

\* -?(0|[1-9][0-9]*): an int, false when it is zero.  (Bodies of this model
\* hold no fractions or exponents.)
ParseNumber(s, i) ==
    LET d == IF At(s, i) = 45 THEN i + 1 ELSE i
        e == IF At(s, d) = 48 THEN d + 1 ELSE DigitsEnd(s, d)
    IN  IF e = d THEN ParseFail
        ELSE Parsed(e, Leaf("int", At(s, d) # 48, <<>>), FALSE, NoLeaf)

StartsAt(s, i, word) ==
    i + Len(word) - 1 <= Len(s) /\ SubSeq(s, i, i + Len(word) - 1) = word

RECURSIVE ParseValue(_, _)
RECURSIVE ParseElements(_, _)
RECURSIVE ParseMembers(_, _, _, _)

\* The elements of a non-empty array from index i on, through the closing ']'
ParseElements(s, i) ==
    LET v == ParseValue(s, i)
        k == SkipWs(s, v.next)
    IN  IF ~v.ok THEN ParseFail
        ELSE IF At(s, k) = 93 THEN Parsed(k + 1, Leaf("list", TRUE, <<>>), FALSE, NoLeaf)
        ELSE IF At(s, k) = 44 THEN ParseElements(s, SkipWs(s, k + 1))
        ELSE ParseFail

\* The members of a non-empty object from the key at index i on, through '}'
ParseMembers(s, i, hasImage, image) ==
    IF At(s, i) # 34 THEN ParseFail
    ELSE LET key == ParseString(s, i)
             c   == SkipWs(s, key.next)
             v   == ParseValue(s, SkipWs(s, c + 1))
             m   == SkipWs(s, v.next)
             isImage == key.v.s = ImageKey
             has == hasImage \/ isImage
             img == IF isImage THEN v.v ELSE image
         IN  IF ~key.ok \/ At(s, c) # 58 THEN ParseFail
             ELSE IF ~v.ok THEN ParseFail
             ELSE IF At(s, m) = 125 THEN Parsed(m + 1, Leaf("dict", TRUE, <<>>), has, img)
             ELSE IF At(s, m) = 44 THEN ParseMembers(s, SkipWs(s, m + 1), has, img)
             ELSE ParseFail

\* One JSON value starting at index i
ParseValue(s, i) ==
    LET c == At(s, i)
    IN  IF c = 34 THEN ParseString(s, i)
        ELSE IF c = 123 THEN
            LET j == SkipWs(s, i + 1)
            IN  IF At(s, j) = 125
                THEN Parsed(j + 1, Leaf("dict", FALSE, <<>>), FALSE, NoLeaf)
                ELSE ParseMembers(s, j, FALSE, NoLeaf)
        ELSE IF c = 91 THEN
            LET j == SkipWs(s, i + 1)
            IN  IF At(s, j) = 93
                THEN Parsed(j + 1, Leaf("list", FALSE, <<>>), FALSE, NoLeaf)
                ELSE ParseElements(s, j)
        ELSE IF c = 45 \/ IsDigit(c) THEN ParseNumber(s, i)
        ELSE IF StartsAt(s, i, <<110, 117, 108, 108>>)
            THEN Parsed(i + 4, NoLeaf, FALSE, NoLeaf)
        ELSE IF StartsAt(s, i, <<116, 114, 117, 101>>)
            THEN Parsed(i + 4, Leaf("bool", TRUE, <<>>), FALSE, NoLeaf)
        ELSE IF StartsAt(s, i, <<102, 97, 108, 115, 101>>)
            THEN Parsed(i + 5, Leaf("bool", FALSE, <<>>), FALSE, NoLeaf)
        ELSE ParseFail

\* json.loads(body): the body is decoded as UTF-8 (UnicodeDecodeError), then one
\* value is read between optional whitespace (JSONDecodeError when there is
\* none or when text follows it).
json_loads(body) ==
    LET text == Utf8Decode(body, <<>>)
        p    == ParseValue(text.s, SkipWs(text.s, 1))
    IN  IF ~text.ok
        THEN [kind |-> "UnicodeDecodeError", v |-> NoLeaf, hasImage |-> FALSE, image |-> NoLeaf]
        ELSE IF ~p.ok \/ SkipWs(text.s, p.next) # Len(text.s) + 1
        THEN [kind |-> "JSONDecodeError", v |-> NoLeaf, hasImage |-> FALSE, image |-> NoLeaf]
        ELSE [kind |-> "value", v |-> p.v, hasImage |-> p.hasImage, image |-> p.image]

\* data.get("image"): the member's value, None when a dict has none
DictGet(data) == IF data.hasImage THEN data.image ELSE NoLeaf

\* -------------------------------------------------- response.text and after

\* The marker the prompt asks for when the image holds no signal
NO_SIGNAL_FOUND == <<78, 79, 95, 83, 73, 71, 78, 65, 76, 95, 70, 79, 85, 78, 68>>

\* Python's  sub in s  for two str
Contains(s, sub) ==
    \E i \in 1..(Len(s) - Len(sub) + 1) : SubSeq(s, i, i + Len(sub) - 1) = sub

\* ------------------------------------------------------------ environment

\* os.environ.get("GEMINI_API_KEY"): unset (None), set to the empty string,
\* set to a key
NoKey == [set |-> FALSE, value |-> <<>>]

EnvKey(value) == [set |-> TRUE, value |-> value]

ApiKeys == {NoKey, EnvKey(<<>>), EnvKey(<<65, 73, 122, 97>>)}

\* Bytes the raw bodies are made of: 'A', '0' and 0xFF (never valid in UTF-8)
RawAlphabet == {65, 48, 255}

\* Bodies a client posts beside the raw ones: JSON envelopes with and without a
\* usable "image" member, JSON values that are no object, text that is no
\* JSON, and the first bytes of a JPEG file.
Envelopes ==
    { <<123, 125>>,                                            \* {}
      <<91, 93>>,                                              \* []
      <<110, 117, 108, 108>>,                                  \* null
      <<34, 81, 81, 61, 61, 34>>,                              \* "QQ=="
      <<123, 34, 105, 109, 97, 103, 101, 34, 58, 34, 81, 81, 61, 61, 34, 125>>,  \* {"image":"QQ=="}
      <<123, 34, 105, 109, 97, 103, 101, 34, 58, 34, 81, 85, 73, 61, 34, 125>>,  \* {"image":"QUI="}
      <<123, 34, 105, 109, 97, 103, 101, 34, 58, 34, 34, 125>>,                  \* {"image":""}
      <<123, 34, 105, 109, 97, 103, 101, 34, 58, 53, 125>>,                      \* {"image":5}
      <<123, 34, 105, 109, 97, 103, 101, 34, 58, 34, 81, 81, 34, 125>>,          \* {"image":"QQ"}
      <<123, 34, 105, 109, 97, 103, 101, 34, 58, 34, 195, 169, 34, 125>>,        \* {"image":"\u00e9"} in UTF-8
      <<123, 34, 105, 109, 97, 103, 34, 58, 34, 81, 81, 61, 61, 34, 125>>,       \* {"imag":"QQ=="}
      <<104, 101, 108, 108, 111>>,                             \* hello
      <<255, 216, 255, 224>> }                                 \* FF D8 FF E0

Bodies == SeqsUpTo(RawAlphabet, MaxRawLen) \cup Envelopes

\* The decimal digits of n >= 0, as a client writes a Content-Length
RECURSIVE Decimal(_)
Decimal(n) == IF n < 10 THEN <<48 + n>> ELSE Append(Decimal(n \div 10), 48 + (n % 10))

\* Content-Length headers a client may send with body b: none, the body's
\* length, more than it sends, fewer, zero in two spellings, a negative
\* number and something that is no number.
HeadersFor(b) ==
    {NoHeader, Header(<<48>>), Header(<<48, 48>>), Header(<<49>>),
     Header(<<45, 49>>), Header(<<45, 50>>), Header(<<97, 98, 99>>)}
    \cup {Header(Decimal(Len(b) + k)) : k \in 0..MaxOverDeclare}

\* What model.generate_content and response.text give: a text, or an exception
Text(s) == [kind |-> "text", text |-> s, msg |-> ""]

Failure(msg) == [kind |-> "error", text |-> <<>>, msg |-> msg]

\* "XAU BUY" as a stand-in for an extracted signal
SignalText == <<88, 65, 85, 32, 66, 85, 89>>

InferenceOutcomes ==
    { Text(NO_SIGNAL_FOUND),
      Text(<<32>> \o NO_SIGNAL_FOUND \o <<10>>),
      Text(<<120, 32>> \o NO_SIGNAL_FOUND \o <<33>>),
      Text(SubSeq(NO_SIGNAL_FOUND, 1, 14)),
      Text(<<10>> \o SignalText \o <<32, 10>>),
      Text(SignalText),
      Text(<<32>>),
      Text(<<>>),
      Failure("429 Resource has been exhausted"),
      Failure("response.text requires the response to contain a valid Part") }

\* How one _send_json call ends: everything is written; wfile.write raises on
\* the headers (nothing is written); the headers are written and wfile.write
\* raises on the document.
WriteOutcomes == {"ok", "fail_headers", "fail_body"}

WriteError == "[Errno 32] Broken pipe"

\* ------------------------------------------------------------------ state

VARIABLES
    api_key,         \* the deployment: GEMINI_API_KEY in os.environ
    genai_installed, \* the deployment: whether google.generativeai can be imported
    pc,              \* where do_POST is: "idle", "begin", "read", "generate", "done"
    headers,         \* the request's Content-Length header
    client_body,     \* the bytes the client sends as the body
    client_sent,     \* whether they have arrived
    eof,             \* whether the client has closed its side of the connection
    content_length,  \* the local content_length
    body,            \* the local body (what rfile.read returned)
    calls,           \* the image bytes of every model.generate_content call
    generated,       \* what the calls gave
    steps,           \* the steps of do_POST executed so far, in order
    raised,          \* the exceptions raised inside the try block
    sent,            \* the (status, data) of every _send_json call
    wire,            \* what was written to wfile
    escaped          \* whether an exception left do_POST

vars == <<api_key, genai_installed, pc, headers, client_body, client_sent, eof,
          content_length, body, calls, generated, steps, raised, sent, wire, escaped>>

deployment == <<api_key, genai_installed>>

request == <<headers, client_body>>

Init ==
    /\ api_key \in ApiKeys
    /\ genai_installed \in BOOLEAN
    /\ pc = "idle"
    /\ headers = NoHeader
    /\ client_body = <<>>
    /\ client_sent = FALSE
    /\ eof = FALSE
    /\ content_length = 0
    /\ body = <<>>
    /\ calls = <<>>
    /\ generated = <<>>
    /\ steps = <<>>
    /\ raised = <<>>
    /\ sent = <<>>
    /\ wire = <<>>
    /\ escaped = FALSE

\* ------------------------------------------------------- writing a response

\* The JSON documents the handler sends
ErrorData(message) ==
    [success |-> FALSE, error |-> message, extracted_text |-> <<>>, is_signal |-> FALSE]

SuccessData(extracted_text) ==
    [success |-> TRUE, error |-> "", extracted_text |-> extracted_text,
     is_signal |-> ~Contains(extracted_text, NO_SIGNAL_FOUND)]

Response(status_code, data) == [status |-> status_code, data |-> data]

StatusLine(r) == [part |-> "status", status |-> r.status, data |-> r.data]

Document(r) == [part |-> "body", status |-> r.status, data |-> r.data]

\* _send_json(status_code, data): send_response and the headers, flushed by
\* end_headers, then the document; w says where a write fails, if one does.
Written(r, w) ==
    IF w = "ok" THEN <<StatusLine(r), Document(r)>>
    ELSE IF w = "fail_body" THEN <<StatusLine(r)>>
    ELSE <<>>

\* except Exception as e: self._send_error(500, f"Error processing image: {str(e)}")
Blanket(msg) == Response(500, ErrorData("Error processing image: " \o msg))

\* An exception raised at `step` inside the try block: the except clause sends
\* the blanket response, and an exception of that write leaves do_POST.
Raise(step, msg, w) ==
    /\ raised' = Append(raised, [step |-> step, msg |-> msg])
    /\ sent' = Append(sent, Blanket(msg))
    /\ wire' = wire \o Written(Blanket(msg), w)
    /\ escaped' = (w # "ok")
    /\ pc' = "done"

\* self._send_json(status_code, data) inside the try block, then return: when
\* the write raises, the except clause runs as for any other exception.
Respond(status_code, data, w1, w2) ==
    LET first == Response(status_code, data)
    IN  /\ pc' = "done"
        /\ IF w1 = "ok"
           THEN /\ sent' = Append(sent, first)
                /\ wire' = wire \o Written(first, w1)
                /\ UNCHANGED <<raised, escaped>>
           ELSE /\ raised' = Append(raised, [step |-> "respond", msg |-> WriteError])
                /\ sent' = sent \o <<first, Blanket(WriteError)>>
                /\ wire' = wire \o Written(first, w1) \o Written(Blanket(WriteError), w2)
                /\ escaped' = (w2 # "ok")

\* ------------------------------------------------------------- the client

\* The HTTP server has read the request line and the headers of a POST and
\* calls do_POST.
Receive ==
    /\ pc = "idle"
    /\ \E b \in Bodies : \E h \in HeadersFor(b) :
          /\ client_body' = b
          /\ headers' = h
    /\ pc' = "begin"
    /\ UNCHANGED <<deployment, client_sent, eof, content_length, body, calls,
                   generated, steps, raised, sent, wire, escaped>>

\* The client's body arrives.
ClientSend ==
    /\ pc \in {"begin", "read", "generate"}
    /\ ~client_sent
    /\ client_sent' = TRUE
    /\ UNCHANGED <<deployment, request, pc, eof, content_length, body, calls,
                   generated, steps, raised, sent, wire, escaped>>

\* The client closes its side of the connection after its body.
ClientClose ==
    /\ pc \in {"begin", "read", "generate"}
    /\ client_sent
    /\ ~eof
    /\ eof' = TRUE
    /\ UNCHANGED <<deployment, request, pc, client_sent, content_length, body,
                   calls, generated, steps, raised, sent, wire, escaped>>

\* The bytes rfile holds
Arrived == IF client_sent THEN client_body ELSE <<>>

\* ---------------------------------------------------------------- do_POST

\* api_key is None: an empty key passes
KeyMissingUnsetOnly(key) == ~key.set

\* not api_key
KeyMissing(key) == ~key.set \/ key.value = <<>>

\* do_POST from the import to the Content-Length check.
Begin ==
    /\ pc = "begin"
    /\ \E w1 \in WriteOutcomes, w2 \in WriteOutcomes :
          LET n == ContentLength(headers)
          IN  IF ~genai_installed THEN
                  /\ steps' = steps \o <<"import">>
                  /\ Raise("import", "No module named 'google'", w2)
                  /\ UNCHANGED content_length
              ELSE IF KeyMissing(api_key) THEN
                  /\ steps' = steps \o <<"import", "api_key">>
                  /\ Respond(500, ErrorData("GEMINI_API_KEY not configured"), w1, w2)
                  /\ UNCHANGED content_length
              ELSE IF ~n.ok THEN
                  /\ steps' = steps \o <<"import", "api_key", "content_length">>
                  /\ Raise("content_length", "invalid literal for int() with base 10", w2)
                  /\ UNCHANGED content_length
              ELSE IF n.value = 0 THEN
                  /\ steps' = steps \o <<"import", "api_key", "content_length">>
                  /\ Respond(400, ErrorData("No image data provided"), w1, w2)
                  /\ UNCHANGED content_length
              ELSE
                  /\ steps' = steps \o <<"import", "api_key", "content_length">>
                  /\ content_length' = n.value
                  /\ pc' = "read"
                  /\ UNCHANGED <<raised, sent, wire, escaped>>
    /\ UNCHANGED <<deployment, request, client_sent, eof, body, calls, generated>>

\* self.rfile.read(content_length) on a buffered reader: a length below -1 is a
\* ValueError; -1 reads to the end of the stream; any other length returns
\* when that many bytes are there or the stream has ended.
ReadReturns(n) == n < -1 \/ eof \/ (n >= 0 /\ Len(Arrived) >= n)

ReadResult(n) ==
    IF n < -1 THEN [ok |-> FALSE, bytes |-> <<>>]
    ELSE IF n = -1 THEN [ok |-> TRUE, bytes |-> Arrived]
    ELSE [ok |-> TRUE, bytes |-> Take(Arrived, n)]

\* The inner clause written  except ValueError:  which also catches the
\* UnicodeDecodeError of json.loads
ImageOfCatchingValueError(b) ==
    LET data == json_loads(b)
    IN  IF data.kind \in {"UnicodeDecodeError", "JSONDecodeError"} THEN
            [kind |-> "image", step |-> "fallback",
             image |-> Leaf("str", b # <<>>, b64encode(b)), msg |-> ""]
        ELSE IF data.v.t # "dict" THEN
            [kind |-> "raise", step |-> "image", image |-> NoLeaf,
             msg |-> "object has no attribute 'get'"]
        ELSE IF ~DictGet(data).truthy THEN
            [kind |-> "missing", step |-> "image", image |-> NoLeaf, msg |-> ""]
        ELSE [kind |-> "image", step |-> "image", image |-> DictGet(data), msg |-> ""]

\* Lines 67-75: the image the handler takes from the body it read.
\*   "image":   image_base64 is bound (from the JSON object or by the fallback)
\*   "missing": the 400 of line 72
\*   "raise":   an exception the inner except clause does not catch
ImageOf(b) ==
    LET data == json_loads(b)
    IN  IF data.kind = "UnicodeDecodeError" THEN
            [kind |-> "raise", step |-> "json", image |-> NoLeaf,
             msg |-> "'utf-8' codec can't decode byte"]
        ELSE IF data.kind = "JSONDecodeError" THEN
            [kind |-> "image", step |-> "fallback",
             image |-> Leaf("str", b # <<>>, b64encode(b)), msg |-> ""]
        ELSE IF data.v.t # "dict" THEN
            [kind |-> "raise", step |-> "image", image |-> NoLeaf,
             msg |-> "object has no attribute 'get'"]
        ELSE IF ~DictGet(data).truthy THEN
            [kind |-> "missing", step |-> "image", image |-> NoLeaf, msg |-> ""]
        ELSE [kind |-> "image", step |-> "image", image |-> DictGet(data), msg |-> ""]

\* do_POST from the read of the body to the call of model.generate_content.
ReadBody ==
    /\ pc = "read"
    /\ ReadReturns(content_length)
    /\ \E w1 \in WriteOutcomes, w2 \in WriteOutcomes :
          LET r       == ReadResult(content_length)
              img     == ImageOf(r.bytes)
              decoded == b64decode(img.image)
          IN  IF ~r.ok THEN
                  /\ steps' = steps \o <<"read">>
                  /\ Raise("read", "read length must be non-negative or -1", w2)
                  /\ UNCHANGED <<body, calls>>
              ELSE IF img.kind = "raise" THEN
                  /\ steps' = steps \o <<"read", "json">>
                              \o (IF img.step = "image" THEN <<"image">> ELSE <<>>)
                  /\ body' = r.bytes
                  /\ Raise(img.step, img.msg, w2)
                  /\ UNCHANGED calls
              ELSE IF img.kind = "missing" THEN
                  /\ steps' = steps \o <<"read", "json", "image">>
                  /\ body' = r.bytes
                  /\ Respond(400, ErrorData("Missing 'image' field in request"), w1, w2)
                  /\ UNCHANGED calls
              ELSE IF ~decoded.ok THEN
                  /\ steps' = steps \o <<"read", "json", img.step, "configure", "decode">>
                  /\ body' = r.bytes
                  /\ Raise("decode", decoded.msg, w2)
                  /\ UNCHANGED calls
              ELSE
                  /\ steps' = steps \o <<"read", "json", img.step, "configure", "decode",
                                         "generate">>
                  /\ body' = r.bytes
                  /\ calls' = Append(calls, decoded.bytes)
                  /\ pc' = "generate"
                  /\ UNCHANGED <<raised, sent, wire, escaped>>
    /\ UNCHANGED <<deployment, request, client_sent, eof, content_length, generated>>

\* self.rfile.read raises: the connection was reset while the handler waited.
ReadFails ==
    /\ pc = "read"
    /\ content_length >= -1
    /\ \E w2 \in WriteOutcomes :
          /\ steps' = steps \o <<"read">>
          /\ Raise("read", "[Errno 104] Connection reset by peer", w2)
    /\ UNCHANGED <<deployment, request, client_sent, eof, content_length, body, calls,
                   generated>>

\* model.generate_content returns or raises; do_POST from response.text to the
\* success response.
GenerateReturn ==
    /\ pc = "generate"
    /\ \E o \in InferenceOutcomes, w1 \in WriteOutcomes, w2 \in WriteOutcomes :
          /\ generated' = Append(generated, o)
          /\ IF o.kind = "error" THEN
                 /\ steps' = steps
                 /\ Raise("generate", o.msg, w2)
             ELSE
                 /\ steps' = steps \o <<"text">>
                 /\ Respond(200, SuccessData(Strip(o.text)), w1, w2)
    /\ UNCHANGED <<deployment, request, client_sent, eof, content_length, body, calls>>

Next == Receive \/ ClientSend \/ ClientClose \/ Begin \/ ReadBody \/ ReadFails \/ GenerateReturn

Spec == Init /\ [][Next]_vars

\* ------------------------------------------------------------ observations

Done == pc = "done"

\* The response do_POST answers with: its first _send_json call.  (Whether a
\* second one follows a failed write is claim C6's matter.)
Answered == sent # <<>>

Answer == sent[1]

Executed(step) == \E i \in 1..Len(steps) : steps[i] = step

KeyConfigured == api_key.set /\ api_key.value # <<>>

KeyNotConfiguredAnswer ==
    [status |-> 500,
     data |-> [success |-> FALSE, error |-> "GEMINI_API_KEY not configured",
               extracted_text |-> <<>>, is_signal |-> FALSE]]

NoImageDataAnswer ==
    [status |-> 400,
     data |-> [success |-> FALSE, error |-> "No image data provided",
               extracted_text |-> <<>>, is_signal |-> FALSE]]

MissingImageAnswer ==
    [status |-> 400,
     data |-> [success |-> FALSE, error |-> "Missing 'image' field in request",
               extracted_text |-> <<>>, is_signal |-> FALSE]]

StatusLines == {i \in 1..Len(wire) : wire[i].part = "status"}

Documents == {i \in 1..Len(wire) : wire[i].part = "body"}

\* ---------------------------------------------------------------------- C1

\* C1: whenever a POST was handled with GEMINI_API_KEY unset or empty, the
\* only response is 500 {success:false, error:"GEMINI_API_KEY not configured"},
\* the body was never read and the inference service never called.  Stated
\* for the deployments in which the import of line 51 succeeds (where it
\* fails, the blanket 500 of the except clause is the response instead).
C1_KeyMissingOnlyResponse ==
    (Done /\ genai_installed /\ ~KeyConfigured) =>
        /\ sent = <<KeyNotConfiguredAnswer>>
        /\ ~Executed("read")
        /\ calls = <<>>

\* ---------------------------------------------------------------------- C2

\* What json.loads gave for the body the handler read
BodyIsJson == Executed("json") /\ json_loads(body).kind = "value"

\* The parsed value carries no "image" member, or a false one (empty string,
\* null, zero, empty container)
NoImageInBody ==
    LET data == json_loads(body)
    IN  data.v.t # "dict" \/ ~data.hasImage \/ ~data.image.truthy

\* C2: whenever the handler parsed the body as JSON (key configured, non-zero
\* Content-Length) and the parsed value carries no usable image member, be it
\* an object or any other JSON value, the response is 400
\* {success:false, error:"Missing 'image' field in request"}.
C2_MissingImageAnyJson ==
    (Done /\ BodyIsJson /\ NoImageInBody) => (Answered /\ Answer = MissingImageAnswer)

\* ---------------------------------------------------------------------- C3

\* C3: whenever the body the handler read is no JSON (whatever its bytes),
\* the image passed to the inference service is that body, byte for byte, and
\* when the call returns text the response is 200 with success:true.
C3_RawBodyIsTheImage ==
    (Done /\ Executed("json") /\ json_loads(body).kind # "value") =>
        /\ calls = <<body>>
        /\ (generated # <<>> /\ generated[1].kind = "text") =>
               (Answered /\ Answer.status = 200 /\ Answer.data.success)

\* ---------------------------------------------------------------------- C4

\* e is T without its leading and trailing whitespace: a middle part of T,
\* what is left of it and right of it is whitespace, and e neither starts
\* nor ends with whitespace.
IsStripped(e, T) ==
    \E i \in 0..Len(T) : \E j \in i..Len(T) :
        /\ e = SubSeq(T, i + 1, j)
        /\ \A k \in (1..i) \cup ((j + 1)..Len(T)) : T[k] \in {9, 10, 11, 12, 13, 32}
        /\ e # <<>> => (e[1] \notin {9, 10, 11, 12, 13, 32}
                        /\ e[Len(e)] \notin {9, 10, 11, 12, 13, 32})

\* "NO_SIGNAL_FOUND" occurs in e
MarkerOccurs(e) ==
    LET marker == <<78, 79, 95, 83, 73, 71, 78, 65, 76, 95, 70, 79, 85, 78, 68>>
    IN  \E i \in 0..Len(e) :
            /\ i + 15 <= Len(e)
            /\ \A k \in 1..15 : e[i + k] = marker[k]

\* C4: whenever the inference call of a request returned text T, the response
\* is 200 with success:true, extracted_text equal to T stripped, and
\* is_signal false exactly when the stripped text contains NO_SIGNAL_FOUND.
C4_SuccessResponse ==
    (Done /\ generated # <<>> /\ generated[1].kind = "text") =>
        /\ Answered
        /\ Answer.status = 200
        /\ Answer.data.success = TRUE
        /\ IsStripped(Answer.data.extracted_text, generated[1].text)
        /\ Answer.data.is_signal = ~MarkerOccurs(Answer.data.extracted_text)

\* The call returned " NO_SIGNAL_FOUND\n": stripped, and no signal
C4_Witness ==
    /\ Done
    /\ generated # <<>>
    /\ generated[1].kind = "text"
    /\ generated[1].text = <<32>> \o NO_SIGNAL_FOUND \o <<10>>
    /\ Answer.status = 200
    /\ Answer.data.extracted_text = NO_SIGNAL_FOUND
    /\ Answer.data.is_signal = FALSE

\* ---------------------------------------------------------------------- C5

BlanketAnswer(msg) ==
    [status |-> 500,
     data |-> [success |-> FALSE, error |-> "Error processing image: " \o msg,
               extracted_text |-> <<>>, is_signal |-> FALSE]]

\* The handler read a body req and has returned
Handled(req) == Done /\ Executed("json") /\ body = req

C6_OneResponseOnTheWire ==
    Done =>
        /\ Cardinality(StatusLines) <= 1
        /\ Cardinality(Documents) <= 1
        /\ \A i \in StatusLines : wire[i].status \in {200, 400, 500}

\* ---------------------------------------------------------------------- C7

\* The headers that declare a length of zero: none, "0" and "00"
DeclaresZero == headers \in {NoHeader, Header(<<48>>), Header(<<48, 48>>)}

NoImageDataOutcome ==
    /\ Answered
    /\ Answer = NoImageDataAnswer
    /\ ~Executed("read")
    /\ body = <<>>
    /\ calls = <<>>

HandlerStep == Begin \/ ReadBody \/ GenerateReturn

\* C8: every POST ends with do_POST returning, whatever Content-Length the
\* client declared, provided only that the inference call ends.  As a property
\* of single states: while do_POST has not returned and the client's body has
\* arrived, the handler's next step can be taken.  (In a state where it
\* cannot, the handler waits, without a timeout, for the client to close the
\* connection, which nothing obliges a client to do.)
C8_EveryPostTerminates ==
    (pc \in {"begin", "read", "generate"} /\ client_sent) => ENABLED HandlerStep

\* --------------------------------------------------------------------- C10

\* image_base64 as lines 67-75 bound it for the body read
ImageBase64 == ImageOf(body).image

\* What holds of every call, of a request answered 400, of a payload that does
\* not decode and of a call that fails, whichever way image_base64 was bound
CallDiscipline ==
    /\ Len(calls) <= 1
    /\ Len(generated) <= Len(calls)
    /\ calls # <<>> =>
           /\ api_key.set /\ api_key.value # <<>>
           /\ ~DeclaresZero
           /\ \E x \in {"image", "fallback"} :
                  SubSeq(steps, 1, 9) = <<"import", "api_key", "content_length", "read",
                                          "json", x, "configure", "decode", "generate">>
           /\ b64decode(ImageBase64).ok
           /\ calls[1] = b64decode(ImageBase64).bytes
    /\ (Answered /\ Answer.status = 400) => calls = <<>>
    /\ (Done /\ Executed("decode") /\ ~b64decode(ImageBase64).ok) => calls = <<>>
    /\ (generated # <<>> /\ generated[1].kind = "error") =>
           /\ Done
           /\ Len(calls) = 1
           /\ Len(generated) = 1
           /\ Len(sent) = 1
           /\ Answer.status = 500

\* C10 as stated: model.generate_content is called at most once in a request,
\* and only after the key check, the Content-Length check, the image-field
\* check (image_base64 is not empty) and the base64 decoding have all
\* succeeded, in that order; a request answered 400 and a request whose
\* payload does not decode never called it; a call that fails is not repeated
\* and is answered 500 at once.
C10_CallOnlyAfterAllChecks ==
    /\ CallDiscipline
    /\ calls # <<>> => ImageBase64.truthy

\* C10 as amended: the same, with the image-field check made only of a body
\* that parses as JSON; a body that is no JSON becomes the image by the
\* fallback of line 75, which checks nothing.
C10_GenerateOnceAfterChecks ==
    /\ CallDiscipline
    /\ (calls # <<>> /\ json_loads(body).kind = "value") =>
           /\ Executed("image")
           /\ json_loads(body).hasImage
           /\ json_loads(body).image.truthy
    /\ (calls # <<>> /\ json_loads(body).kind # "value") =>
           /\ Executed("fallback")
           /\ calls = <<body>>

\* A call was made for the image of a JSON body, failed, and was answered 500
C10_Witness ==
    /\ Done
    /\ Executed("image")
    /\ calls = <<<<65>>>>
    /\ generated # <<>>
    /\ generated[1].kind = "error"
    /\ Answer.status = 500

====
